---- MODULE Spec2Model ----
(***************************************************************************)
(* The RPC client of amqp10-rpc (lib/client.js, kept in src/Makefile from  *)
(* line 20 on) and its error taxonomy (src/lib/errors.js), as a state      *)
(* machine: the request registry, the per-call timers, the reply           *)
(* receivers and the messages in flight between client and server.         *)
(***************************************************************************)
EXTENDS Integers, Sequences, FiniteSets, TLC

\* ------------------------------------------------------------------ bounds
MaxCalls == 2        \* calls issued on the one client
MaxNotify == 1       \* notifications issued on the one client

\* --------------------------------------------------------------- constants
DefaultTimeout == 5000            \* options.timeout || 5000
DefaultCleanupTimeout == 900000   \* options.cleanupTimeout || 15 * 60 * 1000
UndefinedDelay == 1               \* setTimeout(f, undefined) fires after 1 ms

NoId == 0            \* correlationId undefined / null
NoAddr == -1         \* replyTo absent
StaticAddr == 0      \* options.responseAddress, when configured
Null == 0            \* null (no receiver, no callback)

Calls == 1..MaxCalls
Ids == 1..MaxCalls              \* the values uuid.v4() yields, all distinct
Receivers == 1..MaxCalls        \* call c creates receiver c

VARIABLES
  logger,           \* options.logger was supplied
  responseAddress,  \* options.responseAddress was supplied
  interceptor,      \* options.interceptor is a function
  sender,           \* this._sender is set (connect resolved)
  receiver,         \* this._receiver: Null or the receiver last created
  receivers,        \* the receivers created so far
  attached,         \* the receivers that are still attached
  stage,            \* position of each call in RpcClient.prototype.call
  corr,             \* the correlator each call generated
  requests,         \* this._requests: correlator -> PendingRequest
  timers,           \* the live timer of each call
  promise,          \* the promise _sendRequest returned for each call
  settleCalls,      \* how often resolve/reject of each call was invoked
  sendState,        \* the state of sender.send(request) of each call
  network,          \* messages in flight: handed to sender.send, or replies
  notifies,         \* notifications issued so far
  event,            \* the handler that ran last, and what it threw
  wrap,             \* errors.wrapProtocolError: its argument and its result
  methodHandlers,   \* server._methodHandlers: method name -> binding
  served            \* the server operation that ran last, and its outcome

\* the state of the RpcServer
serverVars == <<methodHandlers, served>>

vars == <<logger, responseAddress, interceptor, sender, receiver, receivers,
          attached, stage, corr, requests, timers, promise, settleCalls,
          sendState, network, notifies, event, wrap, serverVars>>

\* ---------------------------------------------------------------- messages
NoBody ==
  [kind |-> "none", value |-> 0, hasResult |-> FALSE, hasError |-> FALSE, code |-> 0]

\* { method: method, params: [ v ] }
RequestBody(v) ==
  [kind |-> "request", value |-> v, hasResult |-> FALSE, hasError |-> FALSE, code |-> 0]

\* { result: v }
ResultBody(v) ==
  [kind |-> "object", value |-> v, hasResult |-> TRUE, hasError |-> FALSE, code |-> 0]

\* { error: { code: code, message: ..., data: ... } }
ErrorBody(code) ==
  [kind |-> "object", value |-> 0, hasResult |-> FALSE, hasError |-> TRUE, code |-> code]

\* { result: v, error: { code: code, ... } }
BothBody(v, code) ==
  [kind |-> "object", value |-> v, hasResult |-> TRUE, hasError |-> TRUE, code |-> code]

\* {}: an object with neither result nor error
EmptyBody ==
  [kind |-> "object", value |-> 0, hasResult |-> FALSE, hasError |-> FALSE, code |-> 0]

\* the elements of a batch response: { result: v }, { error: ... }, {}
ResultItem(v) == [hasResult |-> TRUE, value |-> v, hasError |-> FALSE, code |-> 0]

ErrorItem(code) == [hasResult |-> FALSE, value |-> 0, hasError |-> TRUE, code |-> code]

EmptyItem == [hasResult |-> FALSE, value |-> 0, hasError |-> FALSE, code |-> 0]

\* [ item, ... ]: a batch response
ArrayBody(items) ==
  [kind |-> "array", value |-> 0, hasResult |-> FALSE, hasError |-> FALSE,
   code |-> 0, items |-> items]

Message(type, to, hasProps, replyTo, cid, ttl, body) ==
  [type |-> type, to |-> to, hasProperties |-> hasProps, replyTo |-> replyTo,
   correlationId |-> cid, ttl |-> ttl, body |-> body]

NoMessage == Message("none", NoAddr, FALSE, NoAddr, NoId, 0, NoBody)

\* ---------------------------------------------------------------- promises
NoPromise == [state |-> "none", kind |-> "none", value |-> 0]

PendingPromise == [state |-> "pending", kind |-> "none", value |-> 0]

Resolved(v) == [state |-> "resolved", kind |-> "result", value |-> v]

Rejected(kind, v) == [state |-> "rejected", kind |-> kind, value |-> v]

\* what the map over a batch response yields for one element: r.result,
\* else r.error, else undefined
BatchValue(r) ==
  IF r.hasResult THEN [is |-> "result", value |-> r.value]
  ELSE IF r.hasError THEN [is |-> "error", value |-> r.code]
       ELSE [is |-> "undefined", value |-> 0]

\* a promise resolved with the array a batch response maps to
ResolvedBatch(items) ==
  [state |-> "resolved", kind |-> "batch", value |-> 0,
   items |-> [i \in 1..Len(items) |-> BatchValue(items[i])]]

\* resolve(v) / reject(e) of a promise: only a pending promise changes
Settle(p, outcome) == IF p.state = "pending" THEN outcome ELSE p

NoTimer == [kind |-> "none", delay |-> 0]

\* the address of a reply receiver: the configured one, or a dynamic one
Address(r) == IF responseAddress THEN StaticAddr ELSE r

\* ----------------------------------------------------------------- events
\* the parts of the client's state the step changes
Touched ==
  {n \in {"requests", "promise", "timers", "attached", "network"} :
     CASE n = "requests" -> requests' # requests
       [] n = "promise" -> promise' # promise
       [] n = "timers" -> timers' # timers
       [] n = "attached" -> attached' # attached
       [] n = "network" -> network' # network}

\* the calls whose promise the step changes
Settled == {c \in Calls : promise'[c] # promise[c]}

\* the handler that ran last: its name, the call it belongs to, the
\* correlation id it looked up, the message it handled or built, what it
\* threw, the parts of the state it changed and the promises it settled
Event(op, c, id, m, thrown, touched, settled) ==
  [op |-> op, call |-> c, id |-> id, msg |-> m, thrown |-> thrown,
   touched |-> touched, settled |-> settled]

\* the last conjunct of every action
Observe(op, c, id, m, thrown) ==
  event' = Event(op, c, id, m, thrown, Touched, Settled)

\* ------------------------------------------------------------ wire errors
Undefined == -2      \* undefined: a property or an argument that is absent

\* { code: code, message: message, data: data }
WireError(code, message, data) ==
  [code |-> code, message |-> message, data |-> data]

\* an error object: its constructor, whether it is instanceof ProtocolError,
\* and its code, message and data
ErrorObject(type, isProtocolError, code, message, data) ==
  [type |-> type, isProtocolError |-> isProtocolError, code |-> code,
   message |-> message, data |-> data]

NoError == ErrorObject("none", FALSE, Undefined, Undefined, Undefined)

NoWrap == [err |-> WireError(Undefined, Undefined, Undefined), result |-> NoError]

\* ------------------------------------------------------------ server data
NoName == ""          \* no usable method name
NoValidator == "null" \* validation[i] === null

\* a handler function: which function it is, its own name, the names of its
\* declared parameters
Handler(id, name, params) == [id |-> id, name |-> name, params |-> params]

NoHandler == Handler(0, NoName, <<>>)

\* the params of a definition or of a request: absent, an array, an object
NoParams == [kind |-> "none", array |-> <<>>, object |-> <<>>]

ArrayParams(array) == [kind |-> "array", array |-> array, object |-> <<>>]

ObjectParams(object) == [kind |-> "object", array |-> <<>>, object |-> object]

\* the arguments of bind: bind(name, handler), bind(handler) or
\* bind({ method: name, params: validators }, handler)
Definition(form, method, params, handler) ==
  [form |-> form, method |-> method, params |-> params, handler |-> handler]

NoDefinition == Definition("none", NoName, NoParams, NoHandler)

\* a message at the request address: its replyTo and correlationId, whether
\* its body parses, whether the body has a method, the method, the params
ServerRequest(replyTo, cid, parses, hasMethod, method, params) ==
  [replyTo |-> replyTo, correlationId |-> cid, parses |-> parses,
   hasMethod |-> hasMethod, method |-> method, params |-> params]

NoServerRequest == ServerRequest(NoAddr, NoId, FALSE, FALSE, NoName, NoParams)

\* what the server did last: the operation, the method name, the arguments
\* of bind or the request dispatched, the error thrown to the caller of
\* bind, the handler invoked, the error the dispatch produced, the responses
\* sent, the error handed to the logger, whether the registry changed
Served(op, method, definition, request, thrown, invoked, error, sent, logged, changed) ==
  [op |-> op, method |-> method, definition |-> definition, request |-> request,
   thrown |-> thrown, invoked |-> invoked, error |-> error, sent |-> sent,
   logged |-> logged, changed |-> changed]

NoServed ==
  Served("new", NoName, NoDefinition, NoServerRequest, "none", NoHandler,
         NoError, {}, NoError, FALSE)

\* ------------------------------------------------------------------- Init
\* new RpcClient(client, options)
InitClient ==
  /\ logger \in BOOLEAN
  /\ responseAddress \in BOOLEAN
  /\ interceptor \in BOOLEAN
  /\ sender = FALSE
  /\ receiver = Null
  /\ receivers = {}
  /\ attached = {}
  /\ stage = [c \in Calls |-> "idle"]
  /\ corr = [c \in Calls |-> NoId]
  /\ requests = [i \in {} |-> Null]
  /\ timers = [c \in Calls |-> NoTimer]
  /\ promise = [c \in Calls |-> NoPromise]
  /\ settleCalls = [c \in Calls |-> 0]
  /\ sendState = [c \in Calls |-> "none"]
  /\ network = {}
  /\ notifies = 0
  /\ event = Event("new", 0, NoId, NoMessage, "none", {}, {})

\* a server with nothing bound
InitServer ==
  /\ methodHandlers = [n \in {} |-> NoHandler]
  /\ served = NoServed

Init ==
  /\ InitClient
  /\ InitServer
  /\ wrap = NoWrap

\* ------------------------------------------------------------ error codes
ParseError == -32700
InvalidRequest == -32600
MethodNotFound == -32601
InvalidParams == -32602
InternalError == -32603

\* a code outside the five fixed ones
OtherCode == -32000

\* the five constructors that inherit from ProtocolError
TypedErrors ==
  {"ParseError", "InvalidRequestError", "MethodNotFoundError",
   "InvalidParamsError", "InternalError"}

\* the code each constructor hands to ProtocolError
ErrorCodeOf(type) ==
  CASE type = "ParseError" -> ParseError
    [] type = "InvalidRequestError" -> InvalidRequest
    [] type = "MethodNotFoundError" -> MethodNotFound
    [] type = "InvalidParamsError" -> InvalidParams
    [] type = "InternalError" -> InternalError

\* new errors.<type>(message, data): ProtocolError sets code and message, and
\* data only when it is truthy
NewProtocolError(type, message, data) ==
  ErrorObject(type, TRUE, ErrorCodeOf(type), message, data)

\* the constructor the switch on err.code selects; ProtocolError, the
\* initial value of ErrorType, is what the default case leaves
ErrorTypeOf(code) ==
  CASE code = ParseError -> "ParseError"
    [] code = InvalidRequest -> "InvalidRequestError"
    [] code = MethodNotFound -> "MethodNotFoundError"
    [] code = InvalidParams -> "InvalidParamsError"
    [] code = InternalError -> "InternalError"
    [] OTHER -> "ProtocolError"

\* errors.wrapProtocolError(err): for the five codes a new error of the
\* selected type, message and data copied from err; for any other code the
\* default case returns err itself, the plain object taken off the wire
WrapProtocolError(err) ==
  IF ErrorTypeOf(err.code) \in TypedErrors
  THEN [NewProtocolError(ErrorTypeOf(err.code), Undefined, Undefined)
          EXCEPT !.message = err.message, !.data = err.data]
  ELSE ErrorObject("Object", FALSE, err.code, err.message, err.data)

\* the codes, messages and data of the wire errors wrapProtocolError is
\* applied to: the five fixed codes, and codes outside them
WireCodes ==
  {ParseError, InvalidRequest, MethodNotFound, InvalidParams, InternalError,
   OtherCode, -32099, 0, 1}

WireMessages == {1, 2}

WireData == {Undefined, 1, 2}

WireErrors ==
  {WireError(code, message, data) :
     code \in WireCodes, message \in WireMessages, data \in WireData}

\* a call of wrapProtocolError on the wire error at hand
Wrap ==
  /\ wrap.result = NoError
  /\ wrap' = [wrap EXCEPT !.result = WrapProtocolError(wrap.err)]
  /\ UNCHANGED <<serverVars, logger, responseAddress, interceptor, sender,
                 receiver, receivers, attached, stage, corr, requests, timers,
                 promise, settleCalls, sendState, network, notifies, event>>

\* the next wire error comes in
NextWireError ==
  /\ wrap.result # NoError
  /\ \E err \in WireErrors : wrap' = [err |-> err, result |-> NoError]
  /\ UNCHANGED <<serverVars, logger, responseAddress, interceptor, sender,
                 receiver, receivers, attached, stage, corr, requests, timers,
                 promise, settleCalls, sendState, network, notifies, event>>

\* ---------------------------------------------------------------- registry
HasRequest(id) == id \in DOMAIN requests

PendingRequest(c, request) ==
  [resolve |-> c, reject |-> c, request |-> request, timeoutId |-> c]

Register(id, entry) ==
  [i \in DOMAIN requests \cup {id} |-> IF i = id THEN entry ELSE requests[i]]

Delete(id) == [i \in DOMAIN requests \ {id} |-> requests[i]]

UsedIds == {corr[c] : c \in Calls} \ {NoId}

\* --------------------------------------------------------------- connect
\* RpcClient.prototype.connect, once createSender resolved
Connect ==
  /\ ~sender
  /\ sender' = TRUE
  /\ receiver' = Null
  /\ UNCHANGED <<wrap, serverVars, logger, responseAddress, interceptor, receivers, attached,
                 stage, corr, requests, timers, promise, settleCalls,
                 sendState, network, notifies>>
  /\ Observe("connect", 0, NoId, NoMessage, "none")

\* ------------------------------------------------------------------ call
\* call() up to its first continuation: createReceiver resolved, the
\* receiver is stored and its handlers are registered. Receivers resolve in
\* the order the calls were issued: 1, 2, ...
Call(c) ==
  /\ sender
  /\ stage[c] = "idle"
  /\ \A d \in Calls : d < c => stage[d] # "idle"
  /\ stage' = [stage EXCEPT ![c] = "attached"]
  /\ receiver' = c
  /\ receivers' = receivers \cup {c}
  /\ attached' = attached \cup {c}
  /\ UNCHANGED <<wrap, serverVars, logger, responseAddress, interceptor, sender, corr, requests,
                 timers, promise, settleCalls, sendState, network, notifies>>
  /\ Observe("call", c, NoId, NoMessage, "none")

\* the request call() builds: replyTo is the address of this._receiver
CallRequest(c, correlator) ==
  Message("request", NoAddr, TRUE, Address(receiver), correlator,
          DefaultTimeout, RequestBody(c))

\* as SendRequest, the request handed to the sender without the entry and
\* its timer being set up first
SendRequestUnregistered(c, correlator, request) ==
  /\ requests' = requests
  /\ timers' = timers
  /\ promise' = [promise EXCEPT ![c] = PendingPromise]
  /\ sendState' = [sendState EXCEPT ![c] = "inflight"]
  /\ network' = network \cup {request}

\* _sendRequest past the interceptor: register, arm the timer, send
SendRequest(c, correlator, request) ==
  /\ requests' = Register(correlator, PendingRequest(c, request))
  /\ timers' = [timers EXCEPT ![c] = [kind |-> "timeout", delay |-> DefaultTimeout]]
  /\ promise' = [promise EXCEPT ![c] = PendingPromise]
  /\ sendState' = [sendState EXCEPT ![c] = "inflight"]
  /\ network' = network \cup {request}

\* as Veto, the return value of the interceptor ignored
VetoSendsAnyway(c, correlator) ==
  /\ stage' = [stage EXCEPT ![c] = "vetoed"]
  /\ SendRequest(c, correlator, CallRequest(c, correlator))

\* _sendRequest when the interceptor returns a falsy value: return
Veto(c, correlator) ==
  /\ stage' = [stage EXCEPT ![c] = "vetoed"]
  /\ UNCHANGED <<requests, timers, promise, sendState, network>>

\* the second continuation of call(): correlator, request, _sendRequest
CallSend(c) ==
  /\ stage[c] = "attached"
  /\ \E correlator \in Ids \ UsedIds :
     \E shouldContinue \in (IF interceptor THEN BOOLEAN ELSE {TRUE}) :
       /\ corr' = [corr EXCEPT ![c] = correlator]
       /\ IF shouldContinue
          THEN /\ stage' = [stage EXCEPT ![c] = "sent"]
               /\ SendRequest(c, correlator, CallRequest(c, correlator))
          ELSE Veto(c, correlator)
       /\ UNCHANGED <<wrap, serverVars, logger, responseAddress, interceptor, sender, receiver,
                      receivers, attached, settleCalls, notifies>>
       /\ Observe("send", c, correlator, NoMessage, "none")

\* ----------------------------------------------------------------- timers
\* the delay of the cleanup timer: this._cleanupTimeout, read in the timer
\* callback, where this is the timer and not the client: undefined
CleanupDelay == UndefinedDelay

\* as TimedOutEntry, only resolve being set to null
TimedOutEntryResolveOnly(entry) == [entry EXCEPT !.resolve = Null]

\* as TimedOutEntry, the callbacks left in place
TimedOutEntryKeepsCallbacks(entry) == entry

\* the entry once its timeout fired: resolve and reject are null
TimedOutEntry(entry) == [entry EXCEPT !.resolve = Null, !.reject = Null]

\* as TimeoutEntry, the entry deleted at once instead of kept for cleanup
TimeoutEntryDeletes(c, entry) ==
  /\ promise' = [promise EXCEPT ![entry.reject] =
                   Settle(@, Rejected("RequestTimeoutError", 0))]
  /\ settleCalls' = [settleCalls EXCEPT ![entry.reject] = @ + 1]
  /\ requests' = Delete(corr[c])
  /\ timers' = [timers EXCEPT ![c] = NoTimer]

\* the timeout callback, the entry being in the registry
TimeoutEntry(c, entry) ==
  /\ promise' = [promise EXCEPT ![entry.reject] =
                   Settle(@, Rejected("RequestTimeoutError", 0))]
  /\ settleCalls' = [settleCalls EXCEPT ![entry.reject] = @ + 1]
  /\ requests' = [requests EXCEPT ![corr[c]] = TimedOutEntry(entry)]
  /\ timers' = [timers EXCEPT ![c] = [kind |-> "cleanup", delay |-> CleanupDelay]]

\* the callback of the timeout timer of call c
TimeoutFired(c) ==
  /\ timers[c].kind = "timeout"
  /\ UNCHANGED <<wrap, serverVars, logger, responseAddress, interceptor, sender, receiver,
                 receivers, attached, stage, corr, sendState, network,
                 notifies>>
  /\ IF HasRequest(corr[c])
     THEN IF requests[corr[c]].reject = Null
          THEN /\ timers' = [timers EXCEPT ![c] = NoTimer]
               /\ UNCHANGED <<requests, promise, settleCalls>>
               /\ Observe("timeout", c, corr[c], NoMessage, "TypeError")
          ELSE /\ TimeoutEntry(c, requests[corr[c]])
               /\ Observe("timeout", c, corr[c], NoMessage, "none")
     ELSE /\ timers' = [timers EXCEPT ![c] = NoTimer]
          /\ UNCHANGED <<requests, promise, settleCalls>>
          /\ Observe("timeout", c, corr[c], NoMessage, "none")

\* the callback of the cleanup timer of call c
CleanupFired(c) ==
  /\ timers[c].kind = "cleanup"
  /\ requests' = Delete(corr[c])
  /\ timers' = [timers EXCEPT ![c] = NoTimer]
  /\ UNCHANGED <<wrap, serverVars, logger, responseAddress, interceptor, sender, receiver,
                 receivers, attached, stage, corr, promise, settleCalls,
                 sendState, network, notifies>>
  /\ Observe("cleanup", c, corr[c], NoMessage, "none")

\* ----------------------------------------------------------- send failure
\* as FailRequest, without clearTimeout
FailRequestKeepsTimer(c) ==
  /\ timers' = timers
  /\ requests' = Delete(corr[c])
  /\ promise' = [promise EXCEPT ![c] = Settle(@, Rejected("TransportError", 0))]
  /\ settleCalls' = [settleCalls EXCEPT ![c] = @ + 1]

\* the catch handler, the entry being in the registry
FailRequest(c) ==
  /\ timers' = [timers EXCEPT ![requests[corr[c]].timeoutId] = NoTimer]
  /\ requests' = Delete(corr[c])
  /\ promise' = [promise EXCEPT ![c] = Settle(@, Rejected("TransportError", 0))]
  /\ settleCalls' = [settleCalls EXCEPT ![c] = @ + 1]

\* the catch handler of sender.send(request) in _sendRequest
SendFailed(c) ==
  /\ sendState[c] = "inflight"
  /\ sendState' = [sendState EXCEPT ![c] = "failed"]
  /\ UNCHANGED <<wrap, serverVars, logger, responseAddress, interceptor, sender, receiver,
                 receivers, attached, stage, corr, network, notifies>>
  /\ IF HasRequest(corr[c])
     THEN /\ FailRequest(c)
          /\ Observe("sendFailed", c, corr[c], NoMessage, "none")
     ELSE /\ UNCHANGED <<requests, timers, promise, settleCalls>>
          /\ Observe("sendFailed", c, corr[c], NoMessage, "TypeError")

\* ------------------------------------------------------- response arrival
\* as RequestKey, matching by arrival order: the oldest registered request
RequestKeyByArrival(m) ==
  IF \E c \in Calls : HasRequest(corr[c])
  THEN corr[CHOOSE c \in Calls :
              HasRequest(corr[c]) /\ \A d \in Calls : HasRequest(corr[d]) => c <= d]
  ELSE m.correlationId

\* as RequestKey, a message without correlationId taken as a broadcast reply
\* to a registered request
RequestKeyBroadcast(m) ==
  IF m.correlationId = NoId /\ DOMAIN requests # {}
  THEN CHOOSE id \in DOMAIN requests : TRUE
  ELSE m.correlationId

\* var correlationId = message.properties.correlationId
RequestKey(m) == m.correlationId

\* a reply can be delivered while a receiver on its address is attached
Deliverable(m, att) == \E r \in att : Address(r) = m.to

\* message.body.error of an error response: code, a message, no data
BodyError(body) == WireError(body.code, 1, Undefined)

\* as Completion, a batch with an error element rejecting with that error
CompletionRejectsBatch(m) ==
  IF m.body.kind = "array"
  THEN IF \E i \in 1..Len(m.body.items) : m.body.items[i].hasError
       THEN Rejected("ProtocolError", 0)
       ELSE ResolvedBatch(m.body.items)
  ELSE IF m.body.hasResult THEN Resolved(m.body.value)
  ELSE IF m.body.hasError
       THEN Rejected(WrapProtocolError(BodyError(m.body)).type, m.body.code)
       ELSE Rejected("RawMessage", m.correlationId)

\* the outcome _processMessage gives a Pending request for a response
Completion(m) ==
  IF m.body.kind = "array" THEN ResolvedBatch(m.body.items)
  ELSE IF m.body.hasResult THEN Resolved(m.body.value)
  ELSE IF m.body.hasError
       THEN Rejected(WrapProtocolError(BodyError(m.body)).type, m.body.code)
       ELSE Rejected("RawMessage", m.correlationId)

\* _processMessage once the entry is found and is not TimedOut
CompleteRequest(m, id) ==
  /\ timers' = [timers EXCEPT ![requests[id].timeoutId] = NoTimer]
  /\ promise' = [promise EXCEPT ![requests[id].resolve] = Settle(@, Completion(m))]
  /\ settleCalls' = [settleCalls EXCEPT ![requests[id].resolve] = @ + 1]
  /\ requests' = Delete(id)

\* _processMessage on a message that has no body, the entry being found and
\* not TimedOut: the timer is cleared, then message.body.hasOwnProperty
\* throws and the handler ends before it settles or deletes anything
BodyThrows(m, id) ==
  /\ timers' = [timers EXCEPT ![requests[id].timeoutId] = NoTimer]
  /\ UNCHANGED <<requests, promise, settleCalls>>

\* a use of this._logger: it is undefined unless options.logger was given
LogThrows == ~logger

\* the response found its entry TimedOut
IsTimedOut(request) == request.resolve = Null

\* RpcClient.prototype._processMessage, the 'message' handler of a receiver
ProcessMessage(m) ==
  /\ m \in network
  /\ m.type = "response"
  /\ Deliverable(m, attached)
  /\ network' = network \ {m}
  /\ attached' = attached \ {receiver}
  /\ UNCHANGED <<wrap, serverVars, logger, responseAddress, interceptor, sender, receiver,
                 receivers, stage, corr, sendState, notifies>>
  /\ LET id == RequestKey(m) IN
     IF id = NoId \/ ~HasRequest(id)
     THEN /\ UNCHANGED <<requests, timers, promise, settleCalls>>
          /\ Observe("message", 0, id, m, IF LogThrows THEN "TypeError" ELSE "none")
     ELSE IF IsTimedOut(requests[id])
          THEN IF LogThrows
               THEN /\ UNCHANGED <<requests, timers, promise, settleCalls>>
                    /\ Observe("message", 0, id, m, "TypeError")
               ELSE /\ requests' = Delete(id)
                    /\ UNCHANGED <<timers, promise, settleCalls>>
                    /\ Observe("message", 0, id, m, "none")
          ELSE IF m.body.kind = "none"
               THEN /\ BodyThrows(m, id)
                    /\ Observe("message", requests[id].resolve, id, m, "TypeError")
               ELSE /\ CompleteRequest(m, id)
                    /\ Observe("message", requests[id].resolve, id, m, "none")

\* the 'errorReceived' handler of receiver r: Object.keys(self.requests)
\* reads a property the client never sets, and throws. The link that
\* reported the error is detached by the transport.
ErrorReceived(r) ==
  /\ r \in attached
  /\ attached' = attached \ {r}
  /\ UNCHANGED <<wrap, serverVars, logger, responseAddress, interceptor, sender, receiver,
                 receivers, stage, corr, requests, timers, promise,
                 settleCalls, sendState, network, notifies>>
  /\ Observe("errorReceived", 0, NoId, NoMessage, "TypeError")

\* ---------------------------------------------------------------- notify
\* the second argument of notify(request, overrides): not a plain object, or
\* a plain object with or without properties
Overrides ==
  {o \in [plain : BOOLEAN, hasProperties : BOOLEAN,
          replyTo : {NoAddr, StaticAddr}, correlationId : {NoId} \cup Ids] :
     /\ o.hasProperties => o.plain
     /\ ~o.hasProperties => o.replyTo = NoAddr /\ o.correlationId = NoId}

\* var notification = {}; if (isPlainObject(params)) notification = params;
\* notification.body = method
Notification(o) ==
  Message("request", NoAddr, o.hasProperties, o.replyTo, o.correlationId, 0,
          RequestBody(0))

\* var request = { body: { method: method } }
NamedNotification ==
  Message("request", NoAddr, FALSE, NoAddr, NoId, 0, RequestBody(0))

\* as NotifyNamed, the request going through _sendRequest like a call's
NotifyNamedRegisters ==
  /\ sender
  /\ notifies < MaxNotify
  /\ notifies' = notifies + 1
  /\ attached' = IF receiver # Null THEN attached \ {receiver} ELSE attached
  /\ network' = network \cup {NamedNotification}
  /\ requests' = Register(NoId, PendingRequest(Null, NamedNotification))
  /\ UNCHANGED <<wrap, serverVars, logger, responseAddress, interceptor, sender, receiver,
                 receivers, stage, corr, timers, promise, settleCalls,
                 sendState>>
  /\ Observe("notify", 0, NoId, NamedNotification, "none")

\* notify(method, params) with a method name
NotifyNamed ==
  /\ sender
  /\ notifies < MaxNotify
  /\ notifies' = notifies + 1
  /\ attached' = IF receiver # Null THEN attached \ {receiver} ELSE attached
  /\ network' = network \cup {NamedNotification}
  /\ UNCHANGED <<wrap, serverVars, logger, responseAddress, interceptor, sender, receiver,
                 receivers, stage, corr, requests, timers, promise,
                 settleCalls, sendState>>
  /\ Observe("notify", 0, NoId, NamedNotification, "none")

\* as NotifyRaw, without the replyTo check
NotifyRawUnchecked(o) ==
  /\ sender
  /\ notifies < MaxNotify
  /\ notifies' = notifies + 1
  /\ UNCHANGED <<wrap, serverVars, logger, responseAddress, interceptor, sender, receiver,
                 receivers, attached, stage, corr, requests, timers, promise,
                 settleCalls, sendState>>
  /\ network' = network \cup {Notification(o)}
  /\ Observe("notifyRaw", 0, NoId, Notification(o), "none")

\* notify(request, overrides) with a raw request object or array
NotifyRaw(o) ==
  /\ sender
  /\ notifies < MaxNotify
  /\ notifies' = notifies + 1
  /\ UNCHANGED <<wrap, serverVars, logger, responseAddress, interceptor, sender, receiver,
                 receivers, attached, stage, corr, requests, timers, promise,
                 settleCalls, sendState>>
  /\ IF Notification(o).hasProperties /\ Notification(o).replyTo # NoAddr
     THEN /\ UNCHANGED network
          /\ Observe("notifyRaw", 0, NoId, Notification(o), "BadRequestError")
     ELSE /\ network' = network \cup {Notification(o)}
          /\ Observe("notifyRaw", 0, NoId, Notification(o), "none")

\* ----------------------------------------------------------------- server
\* the error codes a dispatch of a well-formed request can answer with
ServerErrorCodes == {MethodNotFound}

\* the bodies the server can answer request m with
ResponseBodies(m) ==
  {ResultBody(m.body.value)} \cup {ErrorBody(code) : code \in ServerErrorCodes}

\* the reply to request m
Response(m, body) ==
  Message("response", m.replyTo, TRUE, NoAddr, m.correlationId, 0, body)

\* the server takes a request: it answers to replyTo, echoing correlationId
ServerDispatch(m) ==
  /\ m \in network
  /\ m.type = "request"
  /\ IF m.replyTo # NoAddr
     THEN \E body \in ResponseBodies(m) :
            network' = (network \ {m}) \cup {Response(m, body)}
     ELSE network' = network \ {m}
  /\ UNCHANGED <<wrap, serverVars, logger, responseAddress, interceptor, sender, receiver,
                 receivers, attached, stage, corr, requests, timers, promise,
                 settleCalls, sendState, notifies>>
  /\ Observe("dispatch", 0, NoId, NoMessage, "none")

\* ------------------------------------------------------------ server: bind
MethodNames == {"testMethod", "other"}

\* the handler functions bound in the model: a named function of two
\* parameters, an anonymous function of one, a named function of none
Handlers ==
  {Handler(1, "testMethod", <<"one", "two">>),
   Handler(2, NoName, <<"one">>),
   Handler(3, "other", <<>>)}

\* the validators: one, which accepts the value 1 only
Validators == {"isOne"}

Accepts(validator, value) == validator = "isOne" /\ value = 1

\* the names validators are given for in the object form
ValidatorKeys == {"one", "two", "three"}

\* the sequences of up to two elements of S
UpToTwo(S) == {<<>>} \cup {<<a>> : a \in S} \cup {<<a, b>> : a \in S, b \in S}

\* the functions from a subset of K to S
Maps(K, S) == UNION {[D -> S] : D \in SUBSET K}

\* params of a definition: none, validators by position, validators by name
ValidatorParams ==
  {NoParams}
  \cup {ArrayParams(a) : a \in UpToTwo(Validators)}
  \cup {ObjectParams(o) : o \in Maps(ValidatorKeys, Validators)}

\* the arguments bind is called with
Definitions ==
  {Definition("name", method, NoParams, handler) :
     method \in MethodNames, handler \in Handlers}
  \cup {Definition("function", NoName, NoParams, handler) : handler \in Handlers}
  \cup {Definition("definition", method, params, handler) :
          method \in {"testMethod", NoName}, params \in ValidatorParams,
          handler \in Handlers}

\* the name bind settles on: the string, the name of the function, or the
\* method of the definition object
MethodName(def) ==
  IF def.form = "function" THEN def.handler.name ELSE def.method

\* position i of parameter name in the handler's declaration, 0 if none
RECURSIVE IndexOf(_, _, _)
IndexOf(names, name, i) ==
  IF i > Len(names) THEN 0
  ELSE IF names[i] = name THEN i ELSE IndexOf(names, name, i + 1)

\* more validators than parameters, or a validator for an unknown name
InvalidValidation(handler, params) ==
  \/ params.kind = "array" /\ Len(params.array) > Len(handler.params)
  \/ /\ params.kind = "object"
     /\ \E k \in DOMAIN params.object : IndexOf(handler.params, k, 1) = 0

\* as Validation, no padding: the validators as given
ValidationAsGiven(handler, params) ==
  CASE params.kind = "array" -> params.array
    [] params.kind = "object" ->
         [i \in 1..Cardinality(DOMAIN params.object) |->
            IF handler.params[i] \in DOMAIN params.object
            THEN params.object[handler.params[i]] ELSE NoValidator]
    [] OTHER -> <<>>

\* the validation sequence of a binding: one entry per declared parameter,
\* null where no validator was given
Validation(handler, params) ==
  [i \in 1..Len(handler.params) |->
     CASE params.kind = "array" /\ i <= Len(params.array) -> params.array[i]
       [] params.kind = "object" /\ handler.params[i] \in DOMAIN params.object ->
            params.object[handler.params[i]]
       [] OTHER -> NoValidator]

MethodBinding(handler, validation) ==
  [handler |-> handler, validation |-> validation]

\* as BindError, the duplicate check left out: a later bind replaces
BindErrorReplaces(def) ==
  IF def.form = "function" /\ MethodName(def) = NoName
  THEN "InvalidMethodNameError"
  ELSE IF def.form = "definition" /\ MethodName(def) = NoName
  THEN "InvalidMethodDefinitionError"
  ELSE IF InvalidValidation(def.handler, def.params)
  THEN "InvalidValidationDefinitionError"
  ELSE "none"

\* the error bind throws, in the order the checks are made
BindError(def) ==
  IF def.form = "function" /\ MethodName(def) = NoName
  THEN "InvalidMethodNameError"
  ELSE IF def.form = "definition" /\ MethodName(def) = NoName
  THEN "InvalidMethodDefinitionError"
  ELSE IF MethodName(def) \in DOMAIN methodHandlers
  THEN "DuplicateMethodError"
  ELSE IF InvalidValidation(def.handler, def.params)
  THEN "InvalidValidationDefinitionError"
  ELSE "none"

\* server.bind(methodOrDefinition, handler)
Bind(def) ==
  /\ methodHandlers' =
       IF BindError(def) = "none"
       THEN [n \in DOMAIN methodHandlers \cup {MethodName(def)} |->
               IF n = MethodName(def)
               THEN MethodBinding(def.handler, Validation(def.handler, def.params))
               ELSE methodHandlers[n]]
       ELSE methodHandlers
  /\ served' = Served("bind", MethodName(def), def, NoServerRequest, BindError(def),
                      NoHandler, NoError, {}, NoError,
                      methodHandlers' # methodHandlers)
  /\ UNCHANGED <<wrap, logger, responseAddress, interceptor, sender, receiver,
                 receivers, attached, stage, corr, requests, timers, promise,
                 settleCalls, sendState, network, notifies, event>>

\* -------------------------------------------------------- server: dispatch
\* the values of request parameters
ParamValues == {1, 2}

\* params of a request: none, by position, by name
RequestParams ==
  {NoParams}
  \cup {ArrayParams(a) : a \in UpToTwo(ParamValues)}
  \cup {ObjectParams(o) : o \in Maps({"one", "two"}, {1})}

\* the address requests name as replyTo
ReplyAddr == 1

\* the messages that arrive at the request address: with or without
\* replyTo and correlationId; a body that does not parse, a body without
\* method, a request for a method name with params
ServerRequests ==
  {ServerRequest(replyTo, cid, parses, hasMethod, method, params) :
     replyTo \in {NoAddr, ReplyAddr}, cid \in {NoId, 1},
     parses \in BOOLEAN, hasMethod \in BOOLEAN,
     method \in MethodNames \cup {NoName}, params \in RequestParams}

WellFormed(req) ==
  /\ ~req.parses => ~req.hasMethod
  /\ req.hasMethod <=> req.method # NoName
  /\ ~req.hasMethod => req.params = NoParams

\* the arguments the handler is invoked with: array params by position,
\* object params by declared name, undefined where nothing is given
Arguments(handler, params) ==
  [i \in 1..Len(handler.params) |->
     CASE params.kind = "array" /\ i <= Len(params.array) -> params.array[i]
       [] params.kind = "object" /\ handler.params[i] \in DOMAIN params.object ->
            params.object[handler.params[i]]
       [] OTHER -> Undefined]

\* as Rejects, the first position only
RejectsFirst(validation, args) ==
  /\ Len(validation) >= 1
  /\ validation[1] # NoValidator
  /\ ~Accepts(validation[1], args[1])

\* some position has a validator that rejects the argument at it
Rejects(validation, args) ==
  \E i \in 1..Len(validation) :
    validation[i] # NoValidator /\ ~Accepts(validation[i], args[i])

\* what invoking a handler can come to: a value, a throw or rejection, a
\* throw of an error that is a ProtocolError already
HandlerOutcomes == {"returns", "throws", "throwsProtocolError"}

\* the error the pipeline produces for request req, NoError if none
DispatchError(req, outcome) ==
  IF ~req.parses THEN NewProtocolError("ParseError", Undefined, Undefined)
  ELSE IF ~req.hasMethod
  THEN NewProtocolError("InvalidRequestError", Undefined, Undefined)
  ELSE IF req.method \notin DOMAIN methodHandlers
  THEN NewProtocolError("MethodNotFoundError", Undefined, Undefined)
  ELSE IF Rejects(methodHandlers[req.method].validation,
                  Arguments(methodHandlers[req.method].handler, req.params))
  THEN NewProtocolError("InvalidParamsError", Undefined, Undefined)
  ELSE CASE outcome = "returns" -> NoError
         [] outcome = "throws" ->
              NewProtocolError("InternalError", Undefined, Undefined)
         [] outcome = "throwsProtocolError" ->
              ErrorObject("ProtocolError", TRUE, OtherCode, Undefined, Undefined)

\* the handler the pipeline invokes for request req, NoHandler if it stops
\* before step 5
Invoked(req) ==
  IF /\ req.parses
     /\ req.hasMethod
     /\ req.method \in DOMAIN methodHandlers
     /\ ~Rejects(methodHandlers[req.method].validation,
                 Arguments(methodHandlers[req.method].handler, req.params))
  THEN methodHandlers[req.method].handler
  ELSE NoHandler

\* the body of the response: the handler's value, or the error
ResponseBody(handler, error) ==
  IF error = NoError THEN ResultBody(handler.id) ELSE ErrorBody(error.code)

\* as Replies, a response only to a request with a correlationId
RepliesToCalls(req, body) ==
  IF req.replyTo # NoAddr /\ req.correlationId # NoId
  THEN {Message("response", req.replyTo, TRUE, NoAddr, req.correlationId, 0, body)}
  ELSE {}

\* the reply policy: one response to replyTo, echoing the correlationId;
\* none without a replyTo
Replies(req, body) ==
  IF req.replyTo # NoAddr
  THEN {Message("response", req.replyTo, TRUE, NoAddr, req.correlationId, 0, body)}
  ELSE {}

\* what the logger may be handed: the error of a request that has neither
\* replyTo nor correlationId; nothing for a request that is answered; for a
\* request with a correlationId and no replyTo the spec does not say
Logged(req, error) ==
  IF req.replyTo # NoAddr THEN {NoError}
  ELSE IF req.correlationId = NoId THEN {error}
  ELSE {NoError, error}

\* the pipeline run for one message at the request address
Dispatch(req) ==
  /\ WellFormed(req)
  /\ \E outcome \in HandlerOutcomes :
     \E logged \in Logged(req, DispatchError(req, outcome)) :
       served' = Served("dispatch", req.method, NoDefinition, req, "none",
                        Invoked(req), DispatchError(req, outcome),
                        Replies(req, ResponseBody(Invoked(req),
                                                  DispatchError(req, outcome))),
                        logged, FALSE)
  /\ UNCHANGED <<wrap, methodHandlers, logger, responseAddress, interceptor,
                 sender, receiver, receivers, attached, stage, corr, requests,
                 timers, promise, settleCalls, sendState, network, notifies,
                 event>>

\* ------------------------------------------------------------------- peers
MaxBatch == 2        \* elements of a batch response

BatchItems == {ResultItem(1), ErrorItem(InvalidParams), EmptyItem}

\* the arrays of up to n batch items
RECURSIVE Batches(_)
Batches(n) ==
  IF n = 0 THEN {<<>>}
  ELSE Batches(n - 1) \cup
       {Append(b, item) : b \in {x \in Batches(n - 1) : Len(x) = n - 1},
                          item \in BatchItems}

\* the bodies a peer at the request address can answer request m with: a
\* result, an error with a fixed or another code, both, neither, a batch,
\* or no body at all
PeerBodies(m) ==
  {ResultBody(m.body.value), ErrorBody(InvalidParams), ErrorBody(OtherCode),
   BothBody(m.body.value, InternalError), EmptyBody, NoBody}
  \cup {ArrayBody(items) : items \in Batches(MaxBatch)}

\* a peer takes request m and answers it to its replyTo
PeerReply(m) ==
  /\ m \in network
  /\ m.type = "request"
  /\ m.replyTo # NoAddr
  /\ \E body \in PeerBodies(m) :
       network' = (network \ {m}) \cup {Response(m, body)}
  /\ UNCHANGED <<wrap, serverVars, logger, responseAddress, interceptor,
                 sender, receiver, receivers, attached, stage, corr, requests,
                 timers, promise, settleCalls, sendState, notifies>>
  /\ Observe("reply", 0, NoId, NoMessage, "none")

\* a message to a reply address that answers no request: it has no
\* correlationId, or one that is not in the registry
IsStray(m) == m.type = "response" /\ m.body = ResultBody(0)

\* a peer sends a stray message to the address of an attached receiver
Stray ==
  /\ ~\E m \in network : IsStray(m)
  /\ \E r \in attached :
     \E cid \in {NoId} \cup (Ids \ DOMAIN requests) :
       network' = network \cup
         {Message("response", Address(r), TRUE, NoAddr, cid, 0, ResultBody(0))}
  /\ UNCHANGED <<wrap, serverVars, logger, responseAddress, interceptor,
                 sender, receiver, receivers, attached, stage, corr, requests,
                 timers, promise, settleCalls, sendState, notifies>>
  /\ Observe("stray", 0, NoId, NoMessage, "none")

\* ------------------------------------------------------------------- Next
\* calls, their timers and their responses
Next ==
  \/ Connect
  \/ \E c \in Calls : Call(c)
  \/ \E c \in Calls : CallSend(c)
  \/ \E c \in Calls : TimeoutFired(c)
  \/ \E c \in Calls : CleanupFired(c)
  \/ \E c \in Calls : SendFailed(c)
  \/ \E m \in network : ProcessMessage(m)
  \/ \E r \in Receivers : ErrorReceived(r)
  \/ \E m \in network : ServerDispatch(m)

Spec == Init /\ [][Next]_vars

\* calls and notifications on a client that has a logger and no interceptor
InitNotify == Init /\ logger /\ ~interceptor

NextNotify ==
  \/ Next
  \/ NotifyNamed
  \/ \E o \in Overrides : NotifyRaw(o)

SpecNotify == InitNotify /\ [][NextNotify]_vars

\* one call on a client without interceptor, answered by a peer with any
\* body
PeerCalls == {1}

InitPeer == Init /\ ~interceptor

NextPeer ==
  \/ Connect
  \/ \E c \in PeerCalls : Call(c)
  \/ \E c \in PeerCalls : CallSend(c)
  \/ \E c \in PeerCalls : TimeoutFired(c)
  \/ \E c \in PeerCalls : CleanupFired(c)
  \/ \E c \in PeerCalls : SendFailed(c)
  \/ \E m \in network : ProcessMessage(m)
  \/ \E r \in Receivers : ErrorReceived(r)
  \/ \E m \in network : PeerReply(m)

SpecPeer == InitPeer /\ [][NextPeer]_vars

\* calls on a client without interceptor that is sent stray messages
InitStray == Init /\ ~interceptor

NextStray ==
  \/ Next
  \/ Stray

SpecStray == InitStray /\ [][NextStray]_vars

\* the server on its own: binds and dispatches
InitServerOnly == Init /\ logger /\ ~responseAddress /\ ~interceptor

NextServer ==
  \/ \E def \in Definitions : Bind(def)
  \/ \E req \in ServerRequests : Dispatch(req)

SpecServer == InitServerOnly /\ [][NextServer]_vars

\* wrapProtocolError on its own: every wire error, wrapped
InitErrors ==
  /\ InitClient
  /\ InitServer
  /\ logger /\ ~responseAddress /\ ~interceptor
  /\ \E err \in WireErrors : wrap = [err |-> err, result |-> NoError]

NextErrors ==
  \/ Wrap
  \/ NextWireError

SpecErrors == InitErrors /\ [][NextErrors]_vars

\* a timer armed with setTimeout fires: its callback is run once the delay
\* has passed, whatever else the client is doing
TimersFire ==
  \A c \in Calls : WF_vars(TimeoutFired(c)) /\ WF_vars(CleanupFired(c))

\* one call answered by a peer with any body, on a client whose armed timers
\* eventually fire
SpecPeerFair == InitPeer /\ [][NextPeer]_vars /\ TimersFire

\* ----------------------------------------------------------- definitions
Pending(c) == HasRequest(corr[c]) /\ requests[corr[c]].resolve # Null

TimedOut(c) == HasRequest(corr[c]) /\ requests[corr[c]].resolve = Null

PendingIn(reqs, c) == corr[c] \in DOMAIN reqs /\ reqs[corr[c]].resolve # Null

IsSettled(p) == p.state \in {"resolved", "rejected"}

TimeoutError == Rejected("RequestTimeoutError", 0)

TransportError == Rejected("TransportError", 0)

\* the replies in flight that carry the correlator of call c and a result
ResultsFor(c, net) ==
  {m \in net : m.type = "response" /\ m.correlationId = corr[c] /\ m.body.hasResult}

\* call c is registered and unsettled and its result can be delivered
AwaitsResult(c) ==
  /\ Pending(c)
  /\ \E m \in ResultsFor(c, network) : Deliverable(m, attached)

\* ------------------------------------------------------------------- C1
\* C1: whenever _processMessage settles a call's promise for an arriving
\* response, that call is the one registered under the correlationId the
\* response carries; no other call's promise changes.
C1_MatchedByCorrelationId ==
  event.op = "message" =>
    \A c \in event.settled : corr[c] = event.msg.correlationId

\* a later call completed by its response while an earlier one is in flight
C1_Witness ==
  /\ event.op = "message"
  /\ \E c, d \in Calls : c < d /\ event.settled = {d} /\ Pending(c)

\* ------------------------------------------------------------------- C2
\* C2: two calls in flight together, a result reply in flight for each; when
\* the reply to the later call arrives first, the later call resolves to its
\* own result and the earlier call still gets its reply: it stays pending
\* and its reply stays deliverable.
C2_ReverseOrderBothResolve ==
  [][\A c, d \in Calls :
       ( /\ c < d
         /\ AwaitsResult(c)
         /\ AwaitsResult(d)
         /\ event'.op = "message"
         /\ event'.msg \in ResultsFor(d, network) )
       => /\ promise'[d] = Resolved(d)
          /\ promise'[c] = PendingPromise
          /\ \E m \in ResultsFor(c, network') : Deliverable(m, attached')]_vars

\* ------------------------------------------------------------------- C3
\* C3: when the timeout of a registered call fires, its promise is rejected
\* with RequestTimeoutError, resolve and reject of its entry are null and
\* the entry is still in the registry.
C3_TimeoutRejects ==
  event.op = "timeout" =>
    /\ promise[event.call] = TimeoutError
    /\ event.thrown = "none"
    /\ HasRequest(corr[event.call])
    /\ requests[corr[event.call]].resolve = Null
    /\ requests[corr[event.call]].reject = Null

\* the timeout of a call fired while its request was in flight
C3_Witness ==
  /\ event.op = "timeout"
  /\ event.settled = {event.call}
  /\ sendState[event.call] = "inflight"
  /\ TimedOut(event.call)

\* ------------------------------------------------------------------- C4
\* C4: a response for a correlation id whose entry is TimedOut raises no
\* error, settles no promise and removes the entry.
C4_LateResponseConsumed ==
  [][\A m \in network :
       ( /\ m.type = "response"
         /\ HasRequest(m.correlationId)
         /\ requests[m.correlationId].resolve = Null
         /\ event'.op = "message"
         /\ event'.msg = m
         /\ m \notin network' )
       => /\ event'.thrown = "none"
          /\ promise' = promise
          /\ m.correlationId \notin DOMAIN requests']_vars

\* ------------------------------------------------------------------- C5
\* C5 as stated: resolve/reject of a call are invoked at most once in total,
\* the request leaves Pending at most once, and a settled promise keeps its
\* outcome.
C5_CallbacksInvokedOnce ==
  [][\A c \in Calls :
       /\ settleCalls'[c] <= 1
       /\ (stage[c] = "sent" /\ ~PendingIn(requests, c)) => ~PendingIn(requests', c)
       /\ IsSettled(promise[c]) => promise'[c] = promise[c]]_vars

\* C5 as amended: a settled promise keeps its outcome and a request that
\* left Pending never returns to it; resolve/reject are invoked on a pending
\* promise, except that a send failure delivered after the timeout fired
\* invokes reject a second time, without effect.
C5_SettledOnce ==
  [][\A c \in Calls :
       /\ IsSettled(promise[c]) => promise'[c] = promise[c]
       /\ (stage[c] = "sent" /\ ~PendingIn(requests, c)) => ~PendingIn(requests', c)
       /\ settleCalls'[c] # settleCalls[c] =>
            /\ settleCalls'[c] = settleCalls[c] + 1
            /\ \/ promise[c] = PendingPromise /\ settleCalls[c] = 0
               \/ /\ event'.op = "sendFailed"
                  /\ event'.call = c
                  /\ promise[c] = TimeoutError
                  /\ settleCalls[c] = 1]_vars

\* a send failure after the timeout: reject was invoked twice
C5_Witness ==
  \E c \in Calls :
    settleCalls[c] = 2 /\ promise[c] = TimeoutError /\ sendState[c] = "failed"

\* ------------------------------------------------------------------- C6
\* C6: when a receiver emits errorReceived, every request in the registry
\* has its promise rejected with the transport error and the registry is
\* empty afterwards.
C6_ErrorReceivedRejectsAll ==
  [][event'.op = "errorReceived" =>
       /\ DOMAIN requests' = {}
       /\ \A c \in Calls :
            HasRequest(corr[c]) => promise'[c] = TransportError]_vars

\* ------------------------------------------------------------------- C7
\* C7 as stated: after a send failure the call's entry is out of the
\* registry, its timer is cancelled and its promise is rejected with the
\* transport error, whenever the failure is delivered.
C7_SendFailureRejects ==
  event.op = "sendFailed" =>
    /\ ~HasRequest(corr[event.call])
    /\ timers[event.call] = NoTimer
    /\ promise[event.call] = TransportError

\* C7 as amended: after a send failure the call's entry is out of the
\* registry and its promise is settled: with the transport error if the
\* failure settled it, with its earlier outcome otherwise. The handler
\* either completes, and then the call's timer is cancelled, or it finds no
\* entry, throws TypeError and changes nothing.
C7_SendFailureUnregisters ==
  event.op = "sendFailed" =>
    /\ ~HasRequest(corr[event.call])
    /\ IsSettled(promise[event.call])
    /\ event.settled \subseteq {event.call}
    /\ event.call \in event.settled => promise[event.call] = TransportError
    /\ event.thrown = "none" => timers[event.call] = NoTimer
    /\ event.thrown # "none" => event.thrown = "TypeError" /\ event.touched = {}

\* a send failure delivered after the timeout fired: the entry goes, the
\* cleanup timer is cancelled, the promise keeps RequestTimeoutError
C7_Witness ==
  /\ event.op = "sendFailed"
  /\ event.thrown = "none"
  /\ "requests" \in event.touched
  /\ promise[event.call] = TimeoutError

\* ------------------------------------------------------------------- C8
\* C8: notify, in both forms, leaves the request registry as it is and
\* settles no call's promise.
C8_NotifyLeavesRegistry ==
  event.op \in {"notify", "notifyRaw"} =>
    /\ "requests" \notin event.touched
    /\ "promise" \notin event.touched
    /\ event.settled = {}

\* a notification issued while a call is registered and unsettled
C8_Witness ==
  /\ event.op \in {"notify", "notifyRaw"}
  /\ event.thrown = "none"
  /\ \E c \in Calls : Pending(c) /\ promise[c] = PendingPromise

\* ------------------------------------------------------------------- C9
\* C9: notify with a raw request and overrides whose properties carry a
\* replyTo throws BadRequestError, sends nothing and leaves the registry.
C9_NotifyReplyToThrows ==
  ( /\ event.op = "notifyRaw"
    /\ event.msg.hasProperties
    /\ event.msg.replyTo # NoAddr )
  => /\ event.thrown = "BadRequestError"
     /\ event.msg \notin network
     /\ event.touched = {}

\* the throw, with a request in the registry
C9_Witness ==
  /\ event.op = "notifyRaw"
  /\ event.thrown = "BadRequestError"
  /\ event.msg.replyTo # NoAddr
  /\ \E c \in Calls : Pending(c)

\* ------------------------------------------------------------------ C10
\* C10: every message notify hands to the sender carries no correlationId.
C10_NotifyNoCorrelationId ==
  (event.op \in {"notify", "notifyRaw"} /\ event.thrown = "none") =>
    event.msg.correlationId = NoId

\* ------------------------------------------------------------------ C11
\* the constructors whose instances are ProtocolErrors
ProtocolErrorTypes == TypedErrors \cup {"ProtocolError"}

\* response m is in flight and the entry its correlationId names is Pending
AnswersPending(m) ==
  /\ m \in network
  /\ m.type = "response"
  /\ HasRequest(m.correlationId)
  /\ requests[m.correlationId].resolve # Null

\* C11: when a response whose body is not an array is handled and its
\* correlationId names a Pending entry, the entry's timer is cancelled and
\* the entry is removed; the promise resolves with body.result if the body
\* has a result, else rejects with a ProtocolError of the type and code of
\* body.error if the body has an error, else rejects with the raw message.
C11_NonArrayCompletion ==
  [][\A m \in network :
       ( /\ AnswersPending(m)
         /\ m.body.kind # "array"
         /\ event'.op = "message"
         /\ event'.msg = m )
       => LET c == requests[m.correlationId].resolve IN
          /\ timers'[c] = NoTimer
          /\ m.correlationId \notin DOMAIN requests'
          /\ IF m.body.hasResult
             THEN promise'[c] = Resolved(m.body.value)
             ELSE IF m.body.hasError
                  THEN /\ promise'[c].state = "rejected"
                       /\ promise'[c].kind \in ProtocolErrorTypes
                       /\ promise'[c].kind = ErrorTypeOf(m.body.code)
                       /\ promise'[c].value = m.body.code
                  ELSE promise'[c] = Rejected("RawMessage", m.correlationId)]_vars

\* ------------------------------------------------------------------ C12
\* what element r of a batch response stands for in the resolved array
ElementValue(r) ==
  CASE r.hasResult -> [is |-> "result", value |-> r.value]
    [] ~r.hasResult /\ r.hasError -> [is |-> "error", value |-> r.code]
    [] OTHER -> [is |-> "undefined", value |-> 0]

\* C12: when a response whose body is an array is handled and its
\* correlationId names a Pending entry, the promise resolves with an array
\* of the same length whose element i is body[i].result, else body[i].error,
\* else undefined; it never rejects.
C12_BatchResolves ==
  [][\A m \in network :
       ( /\ AnswersPending(m)
         /\ m.body.kind = "array"
         /\ event'.op = "message"
         /\ event'.msg = m )
       => LET c == requests[m.correlationId].resolve IN
          /\ promise'[c].state = "resolved"
          /\ promise'[c].kind = "batch"
          /\ Len(promise'[c].items) = Len(m.body.items)
          /\ \A i \in 1..Len(m.body.items) :
               promise'[c].items[i] = ElementValue(m.body.items[i])]_vars

\* a call resolved with a batch of two whose first element is an error
C12_Witness ==
  /\ event.op = "message"
  /\ event.msg.body.kind = "array"
  /\ \E c \in Calls :
       /\ event.settled = {c}
       /\ promise[c].state = "resolved"
       /\ promise[c].kind = "batch"
       /\ Len(promise[c].items) = 2
       /\ promise[c].items[1].is = "error"
       /\ promise[c].items[2].is = "result"

\* ------------------------------------------------------------------ C13
\* C13: wrapProtocolError(err) is, for each of the five fixed codes, an
\* error of the corresponding type, and for every other code a ProtocolError
\* that is none of the five; in both cases it is a ProtocolError and carries
\* the code, message and data of err.
C13_WrapsEveryCode ==
  wrap.result # NoError =>
    /\ wrap.result.isProtocolError
    /\ wrap.result.type = ErrorTypeOf(wrap.err.code)
    /\ wrap.result.code = wrap.err.code
    /\ wrap.result.message = wrap.err.message
    /\ wrap.result.data = wrap.err.data

\* ------------------------------------------------------------------ C14
\* C14: when the interceptor tells _sendRequest not to continue, nothing is
\* registered under the call's correlator, no timer is armed, no request is
\* handed to the sender and _sendRequest returns no promise; the registry,
\* the timers, the promises and the network are as before.
C14_VetoLeavesNothing ==
  (event.op = "send" /\ stage[event.call] = "vetoed") =>
    /\ event.touched = {}
    /\ ~HasRequest(corr[event.call])
    /\ timers[event.call] = NoTimer
    /\ promise[event.call] = NoPromise
    /\ sendState[event.call] = "none"
    /\ \A m \in network : m.correlationId # corr[event.call]

\* a call vetoed while another call is registered and unsettled
C14_Witness ==
  /\ event.op = "send"
  /\ stage[event.call] = "vetoed"
  /\ \E d \in Calls : d # event.call /\ Pending(d) /\ promise[d] = PendingPromise

\* ------------------------------------------------------------------ C15
\* C15: when the timeout of a call fires, the cleanup timer is armed with
\* the client's cleanup timeout, 15 minutes by default, and the entry stays
\* in the registry, TimedOut, until that timer fires or a late response or
\* a send failure removes it.
C15_CleanupArmedWithCleanupTimeout ==
  \A c \in Calls :
    /\ (event.op = "timeout" /\ event.call = c /\ event.thrown = "none") =>
         /\ timers[c] = [kind |-> "cleanup", delay |-> DefaultCleanupTimeout]
         /\ TimedOut(c)
    /\ timers[c].kind = "cleanup" => timers[c].delay = DefaultCleanupTimeout

\* ------------------------------------------------------------------ C16
\* C16: a dispatch of a request that carries a replyTo sends exactly one
\* response, to that address, with a result or an error and with the
\* correlationId of the request (none if the request has none); a dispatch
\* of a request with neither replyTo nor correlationId sends nothing and
\* hands the error it produced, if any, to the logger.
C16_ReplyPolicy ==
  served.op = "dispatch" =>
    /\ served.request.replyTo # NoAddr =>
         /\ Cardinality(served.sent) = 1
         /\ \A m \in served.sent :
              /\ m.type = "response"
              /\ m.to = served.request.replyTo
              /\ m.correlationId = served.request.correlationId
              /\ m.body.hasResult # m.body.hasError
              /\ m.body.hasError <=> served.error # NoError
    /\ (served.request.replyTo = NoAddr /\ served.request.correlationId = NoId) =>
         /\ served.sent = {}
         /\ served.error # NoError => served.logged = served.error

\* a broadcast request: replyTo and no correlationId, answered with the
\* handler's result and no correlationId
C16_Witness ==
  /\ served.op = "dispatch"
  /\ served.request.replyTo # NoAddr
  /\ served.request.correlationId = NoId
  /\ served.invoked # NoHandler
  /\ \E m \in served.sent : m.body.hasResult /\ m.correlationId = NoId

\* ------------------------------------------------------------------ C17
\* C17: a bind of a name that is bound throws DuplicateMethodError and
\* leaves the registry as it is; no step changes or removes a binding, and
\* a dispatch that invokes a handler invokes the one the registry holds for
\* the method, that is the first one bound.
C17_DuplicateBindRejected ==
  [][/\ (served'.op = "bind" /\ served'.method \in DOMAIN methodHandlers) =>
          /\ served'.thrown = "DuplicateMethodError"
          /\ methodHandlers' = methodHandlers
     /\ \A n \in DOMAIN methodHandlers :
          n \in DOMAIN methodHandlers' /\ methodHandlers'[n] = methodHandlers[n]
     /\ (served'.op = "dispatch" /\ served'.invoked # NoHandler) =>
          /\ served'.method \in DOMAIN methodHandlers
          /\ served'.invoked = methodHandlers[served'.method].handler]_vars

\* a second bind of a name, with another handler, thrown back: the registry
\* holds the first handler
C17_Witness ==
  /\ served.op = "bind"
  /\ served.thrown = "DuplicateMethodError"
  /\ served.method \in DOMAIN methodHandlers
  /\ methodHandlers[served.method].handler # served.definition.handler

\* ------------------------------------------------------------------ C18
\* C18: a dispatch of a request for a bound method, one of whose arguments
\* is rejected by the validator of its position, produces InvalidParamsError
\* (-32602) and invokes no handler; when no validator rejects, null
\* positions not being validated, the handler is invoked.
C18_ValidationGuardsHandler ==
  ( /\ served.op = "dispatch"
    /\ served.request.parses
    /\ served.request.hasMethod
    /\ served.method \in DOMAIN methodHandlers )
  => LET binding == methodHandlers[served.method]
         args == Arguments(binding.handler, served.request.params)
         rejected == {i \in 1..Len(binding.validation) :
                        /\ binding.validation[i] # NoValidator
                        /\ ~Accepts(binding.validation[i], args[i])}
     IN /\ rejected # {} =>
             /\ served.error.type = "InvalidParamsError"
             /\ served.error.code = InvalidParams
             /\ served.invoked = NoHandler
        /\ rejected = {} =>
             /\ served.invoked = binding.handler
             /\ served.error.type # "InvalidParamsError"

\* a request whose first argument is not validated and whose second is
\* rejected, answered with the error
C18_Witness ==
  /\ served.op = "dispatch"
  /\ served.method \in DOMAIN methodHandlers
  /\ methodHandlers[served.method].validation = <<NoValidator, "isOne">>
  /\ served.request.params = ArrayParams(<<2, 2>>)
  /\ served.invoked = NoHandler
  /\ \E m \in served.sent : m.body.hasError /\ m.body.code = InvalidParams

\* ------------------------------------------------------------------ C19
\* the definition gives more validators than the handler has parameters,
\* or a validator for a name the handler does not declare
GivesUnknownValidator(def) ==
  \/ /\ def.params.kind = "array"
     /\ Len(def.params.array) > Len(def.handler.params)
  \/ /\ def.params.kind = "object"
     /\ \E k \in DOMAIN def.params.object :
          \A i \in 1..Len(def.handler.params) : def.handler.params[i] # k

\* C19: the validation of every binding has one entry per declared
\* parameter of its handler: the validator given for that position or that
\* name, null where none was given. A bind that gives more validators than
\* parameters or a validator for an undeclared name binds nothing, and
\* throws InvalidValidationDefinitionError when the name is usable and not
\* bound.
C19_ValidationMatchesArity ==
  /\ \A n \in DOMAIN methodHandlers :
       /\ Len(methodHandlers[n].validation) = Len(methodHandlers[n].handler.params)
       /\ \A i \in 1..Len(methodHandlers[n].validation) :
            methodHandlers[n].validation[i] \in Validators \cup {NoValidator}
  /\ (served.op = "bind" /\ served.thrown = "none") =>
       LET def == served.definition
           binding == methodHandlers[served.method]
       IN /\ binding.handler = def.handler
          /\ \A i \in 1..Len(def.handler.params) :
               binding.validation[i] =
                 IF def.params.kind = "array" /\ i <= Len(def.params.array)
                 THEN def.params.array[i]
                 ELSE IF /\ def.params.kind = "object"
                         /\ def.handler.params[i] \in DOMAIN def.params.object
                      THEN def.params.object[def.handler.params[i]]
                      ELSE NoValidator
  /\ (served.op = "bind" /\ GivesUnknownValidator(served.definition)) =>
       /\ served.thrown # "none"
       /\ ~served.changed
       /\ (served.method # NoName /\ served.method \notin DOMAIN methodHandlers) =>
            served.thrown = "InvalidValidationDefinitionError"

\* a bind by name of a validator for the second parameter only
C19_Witness ==
  /\ served.op = "bind"
  /\ served.thrown = "none"
  /\ served.definition.params.kind = "object"
  /\ DOMAIN served.definition.params.object = {"two"}
  /\ methodHandlers[served.method].validation = <<NoValidator, "isOne">>

\* ------------------------------------------------------------------ C20
\* C20: when the reply handler is given a message that has no correlationId
\* or one that is not a key of the registry, the registry and every promise
\* are as before: each Pending request is still Pending and its timeout
\* timer is still armed.
C20_StrayLeavesRegistry ==
  [][\A m \in network :
       ( /\ m.type = "response"
         /\ m.correlationId = NoId \/ ~HasRequest(m.correlationId)
         /\ event'.op = "message"
         /\ event'.msg = m )
       => /\ requests' = requests
          /\ promise' = promise
          /\ \A c \in Calls :
               Pending(c) => /\ PendingIn(requests', c)
                             /\ timers[c].kind = "timeout"
                             /\ timers'[c] = timers[c]]_vars

\* a message without correlationId handled by a client without logger, a
\* call being registered and unsettled
C20_Witness ==
  /\ event.op = "message"
  /\ event.msg.correlationId = NoId
  /\ event.thrown = "TypeError"
  /\ \E c \in Calls :
       Pending(c) /\ promise[c] = PendingPromise /\ timers[c].kind = "timeout"

\* ------------------------------------------------------------------ C21
\* C21: when _sendRequest has handed the request of a call to the sender,
\* the call's entry is in the registry, Pending, and its timeout timer is
\* armed; no message in flight, and no message the reply handler is given,
\* carries the correlator of a call that was never registered.
C21_RegisteredBeforeSent ==
  /\ (event.op = "send" /\ stage[event.call] = "sent") =>
       /\ Pending(event.call)
       /\ timers[event.call] = [kind |-> "timeout", delay |-> DefaultTimeout]
       /\ \E m \in network :
            m.type = "request" /\ m.correlationId = corr[event.call]
  /\ \A c \in Calls :
       \A m \in network \cup {event.msg} :
         (corr[c] # NoId /\ m.correlationId = corr[c]) =>
           /\ stage[c] = "sent"
           /\ promise[c] # NoPromise
           /\ (promise[c] = PendingPromise /\ sendState[c] = "inflight") => Pending(c)

\* a response delivered while the send of its request is not yet
\* acknowledged: it finds the entry and resolves the call
C21_Witness ==
  /\ event.op = "message"
  /\ \E c \in Calls :
       /\ event.settled = {c}
       /\ event.id = corr[c]
       /\ sendState[c] = "inflight"
       /\ promise[c] = Resolved(c)

\* ------------------------------------------------------------------ C22
\* C22: notify, in both forms, changes nothing of the client but the
\* messages handed to the sender: the registry, the promises, the timers
\* and the attached reply receivers are as they were before it.
C22_NotifyPureSend ==
  event.op \in {"notify", "notifyRaw"} => event.touched \subseteq {"network"}

\* ------------------------------------------------------------------ C23
\* C23: armed timers firing eventually, every entry added to the request
\* registry is eventually removed: whatever the events that follow, no
\* correlation id stays in the registry forever.
C23_EveryEntryRemoved ==
  \A id \in Ids : HasRequest(id) ~> ~HasRequest(id)

\* ------------------------------------------------------------------ C24
\* C24: between handlers, every entry of the request registry belongs to a
\* call that was sent under its correlation id, and has resolve and reject
\* both null or both non-null, non-null exactly when the promise of that call
\* is unsettled; a call whose promise was settled otherwise than by its
\* timeout (by a response or a send failure; the link error handler settles
\* nothing) has no entry in the registry.
C24_CallbacksMatchPromise ==
  /\ \A id \in DOMAIN requests :
       /\ requests[id].resolve = Null <=> requests[id].reject = Null
       /\ \E c \in Calls :
            /\ corr[c] = id
            /\ stage[c] = "sent"
            /\ requests[id].resolve # Null => requests[id].resolve = c
            /\ requests[id].reject # Null => requests[id].reject = c
            /\ requests[id].resolve # Null <=> promise[c] = PendingPromise
  /\ \A c \in Calls :
       (IsSettled(promise[c]) /\ promise[c] # TimeoutError) => ~HasRequest(corr[c])

\* a TimedOut entry, its callbacks null and its promise rejected, next to a
\* Pending entry whose promise is unsettled
C24_Witness ==
  \E c, d \in Calls :
    /\ TimedOut(c)
    /\ requests[corr[c]].reject = Null
    /\ promise[c] = TimeoutError
    /\ Pending(d)
    /\ promise[d] = PendingPromise

====
